---- MODULE Spec2Model ----
(***************************************************************************)
(* A model of terminusdb_client/woqlschema/woql_schema.py: the document    *)
(* class registry (metaclass TerminusClass), the identifier strategies,    *)
(* the instance serializer and the schema container (WOQLSchema).          *)
(*                                                                         *)
(* Python values are tagged pairs <<tag, payload>>.  A Python str is a     *)
(* sequence of atoms: single characters, or a whole name (a class name, a  *)
(* namespace) standing for its characters.  A Python dict is a function.   *)
(***************************************************************************)
EXTENDS Integers, Sequences, FiniteSets, TLC

VARIABLES classes, enums, schemas, objs, last

vars == <<classes, enums, schemas, objs, last>>

----------------------------------------------------------------------------
(* Bounds of the model. *)

MaxClasses == 2
MaxBases == 2
MaxObjs == 2
MaxListLen == 1
MaxStrLen == 2
MaxSchemas == 2
MaxMembers == 2

----------------------------------------------------------------------------
(* Python values. *)

PyNone == <<"none", 0>>
PyInt(n) == <<"int", n>>
PyStr(s) == <<"str", s>>
PyBool(b) == <<"bool", b>>
PyList(l) == <<"list", l>>
PyObj(i) == <<"obj", i>>
PyEnum(e, m) == <<"enum", <<e, m>>>>
PySchema(s) == <<"schema", s>>
PyKey(kind, keys) == <<"key", <<kind, keys>>>>

Tag(v) == v[1]
Payload(v) == v[2]

EmptyDict == [k \in {} |-> PyNone]

Range(s) == {s[i] : i \in 1..Len(s)}

\* dict.update(other): the entries of other overwrite those of d
DictUpdate(d, other) ==
    [k \in (DOMAIN d) \cup (DOMAIN other) |->
        IF k \in DOMAIN other THEN other[k] ELSE d[k]]

\* dict.get(k): None when the key is absent
DictGet(d, k) == IF k \in DOMAIN d THEN d[k] ELSE PyNone

----------------------------------------------------------------------------
(* Classes: name, bases, method resolution order, own namespace.           *)
(* Python's type.__new__ computes __mro__ by C3 linearisation and copies   *)
(* the class body into the class; attribute lookup walks the __mro__.      *)

MroFail == <<"!inconsistent">>

RECURSIVE C3Merge(_)
C3Merge(seqs) ==
    LET ne == SelectSeq(seqs, LAMBDA s : Len(s) > 0)
    IN  IF ne = <<>> THEN <<>>
        ELSE LET good(i) == \A j \in 1..Len(ne) : Head(ne[i]) \notin Range(Tail(ne[j]))
                 cands == {i \in 1..Len(ne) : good(i)}
             IN  IF cands = {} THEN MroFail
                 ELSE LET i == CHOOSE x \in cands : \A y \in cands : x <= y
                          h == Head(ne[i])
                          rest == C3Merge([j \in 1..Len(ne) |->
                                      IF Head(ne[j]) = h THEN Tail(ne[j]) ELSE ne[j]])
                      IN  IF rest = MroFail THEN MroFail ELSE <<h>> \o rest

Mro(tbl, name, bases) ==
    LET m == C3Merge([i \in 1..Len(bases) |-> tbl[bases[i]].mro] \o <<bases>>)
    IN  IF m = MroFail THEN MroFail ELSE <<name>> \o m

\* hasattr(cls, a) / getattr(cls, a) on a class record c of table tbl
HasAttr(tbl, c, a) == \E i \in 1..Len(c.mro) :
    IF c.mro[i] = c.name THEN a \in DOMAIN c.attrs ELSE a \in DOMAIN tbl[c.mro[i]].attrs

GetAttr(tbl, c, a) ==
    LET owns(i) == IF c.mro[i] = c.name THEN a \in DOMAIN c.attrs
                   ELSE a \in DOMAIN tbl[c.mro[i]].attrs
        i == CHOOSE x \in 1..Len(c.mro) : owns(x) /\ \A y \in 1..(x - 1) : ~owns(y)
    IN  IF c.mro[i] = c.name THEN c.attrs[a] ELSE tbl[c.mro[i]].attrs[a]

----------------------------------------------------------------------------
(* TerminusClass.__init__ *)

\* lines 122-131: own annotations first, then every base's merged mapping
\* is written over them with dict.update, in the order of the bases
RECURSIVE UpdateFromBases(_, _, _)
UpdateFromBases(tbl, ann, bases) ==
    IF bases = <<>> THEN ann
    ELSE UpdateFromBases(tbl, DictUpdate(ann, tbl[Head(bases)]._annotations), Tail(bases))

MergeAnnotations(tbl, bases, nmspc) ==
    UpdateFromBases(tbl, nmspc.ann, bases)

\* bool(v): Python truthiness
Truthy(v) ==
    CASE Tag(v) = "bool" -> Payload(v)
      [] Tag(v) = "none" -> FALSE
      [] Tag(v) = "int" -> Payload(v) # 0
      [] Tag(v) \in {"str", "list"} -> Len(Payload(v)) > 0
      [] OTHER -> TRUE

\* mutant: the flag is the truthiness of the attribute
ResolveAbstract_Truthiness(tbl, c) ==
    IF HasAttr(tbl, c, "_abstract") THEN Truthy(GetAttr(tbl, c, "_abstract")) ELSE FALSE

\* lines 133-138: the flag the generated constructor closes over
ResolveAbstract(tbl, c) ==
    IF HasAttr(tbl, c, "_abstract")
    THEN IF Tag(GetAttr(tbl, c, "_abstract")) = "bool"
         THEN Payload(GetAttr(tbl, c, "_abstract"))
         ELSE TRUE
    ELSE FALSE

\* the class object after type.__new__ and TerminusClass.__init__
NewClass(tbl, name, bases, nmspc) ==
    LET c0 == [name |-> name, bases |-> bases, mro |-> Mro(tbl, name, bases),
               own |-> nmspc.ann, attrs |-> nmspc.attrs]
    IN  [name |-> name, bases |-> bases, mro |-> c0.mro,
         own |-> nmspc.ann, attrs |-> nmspc.attrs,
         _annotations |-> MergeAnnotations(tbl, bases, nmspc),
         abstract |-> ResolveAbstract(tbl, c0)]

\* lines 153-156: the container the class registers in, if any
SchemaOf(tbl, c) ==
    IF HasAttr(tbl, c, "_schema") THEN GetAttr(tbl, c, "_schema") ELSE PyNone

\* mutant: the declaration does not register the class
Registered_Skipped(tbl, c, reg) == reg

Registered(tbl, c, reg) ==
    IF SchemaOf(tbl, c) # PyNone
    THEN [reg EXCEPT ![Payload(SchemaOf(tbl, c))] = @ \cup {c.name}]
    ELSE reg

\* the module's own classes: DocumentTemplate (lines 164-166), TaggedUnion (295-296)
DocumentTemplate ==
    [name |-> "DocumentTemplate", bases |-> <<>>, mro |-> <<"DocumentTemplate">>,
     own |-> EmptyDict,
     attrs |-> ("_schema" :> PyNone) @@ ("_key" :> PyKey("Random", <<>>)),
     _annotations |-> EmptyDict, abstract |-> FALSE]

BuiltinClasses ==
    LET t0 == ("DocumentTemplate" :> DocumentTemplate)
    IN  t0 @@ ("TaggedUnion" :>
                 NewClass(t0, "TaggedUnion", <<"DocumentTemplate">>,
                          [ann |-> EmptyDict, attrs |-> EmptyDict]))

----------------------------------------------------------------------------
(* DocumentTemplate._to_dict: the schema description of one class. *)

Put(d, k, v) == DictUpdate(d, k :> v)

\* cls.__base__.__name__: the first base; object for DocumentTemplate itself
BaseName(c) == IF c.bases = <<>> THEN "object" ELSE c.bases[1]

IndexOf(s, x) == CHOOSE i \in 1..Len(s) : s[i] = x /\ \A j \in 1..(i - 1) : s[j] # x

\* parents[1 : parents.index("DocumentTemplate")], lines 185-186
Inherits(c) == SubSeq(c.mro, 2, IndexOf(c.mro, "DocumentTemplate") - 1)

\* wt.to_woql_type, the external conversion table (line 216)
ToWoqlType(t) ==
    CASE t = "int" -> "xsd:integer"
      [] t = "str" -> "xsd:string"
      [] t = "list" -> "List"
      [] OTHER -> t

KeyKind(k) == Payload(k)[1]
KeyFields(k) == Payload(k)[2]
\* hasattr(key, "_keys"): HashKey and LexicalKey set it in __init__ (lines 29, 62)
KeyHasKeys(k) == KeyKind(k) \in {"Hash", "Lexical"}
\* hasattr(key, "idgen"): every strategy but ValueHashKey (lines 89-99)
KeyHasIdgen(k) == KeyKind(k) \in {"Hash", "Lexical", "Random"}

\* lines 182-188
ToDictHead(c) ==
    LET result == ("@type" :> "Class") @@ ("@id" :> c.name)
    IN  IF BaseName(c) # "DocumentTemplate"
        THEN Put(result, "@inherits", Inherits(c))
        ELSE IF BaseName(c) = "TaggedUnion"
             THEN Put(result, "@type", "TaggedUnion")
             ELSE result

\* lines 199-213
ToDictFlags(tbl, c, r0) ==
    LET r1 == IF HasAttr(tbl, c, "_base")
              THEN Put(r0, "@base", GetAttr(tbl, c, "_base")) ELSE r0
        r2 == IF HasAttr(tbl, c, "_subdocument")
              THEN Put(Put(r1, "@subdocument", GetAttr(tbl, c, "_subdocument")),
                       "@key", [type |-> "Random"])
              ELSE r1
        r3 == IF HasAttr(tbl, c, "_abstract")
              THEN Put(r2, "@abstract", GetAttr(tbl, c, "_abstract")) ELSE r2
        key == GetAttr(tbl, c, "_key")
    IN  IF HasAttr(tbl, c, "_key") /\ ~HasAttr(tbl, c, "_subdocument")
        THEN IF KeyHasKeys(key)
             THEN Put(r3, "@key", [type |-> KeyKind(key), fields |-> KeyFields(key)])
             ELSE Put(r3, "@key", [type |-> KeyKind(key)])
        ELSE r3

\* lines 214-217
ToDictFields(c, r) ==
    DictUpdate(r, [f \in DOMAIN c._annotations |-> ToWoqlType(c._annotations[f])])

ClassToDict(tbl, c) == ToDictFields(c, ToDictFlags(tbl, c, ToDictHead(c)))

----------------------------------------------------------------------------
(* Enumerations (EnumTemplate): a member declared with no value, or with   *)
(* an empty one, takes its own name as value (lines 274-278).              *)

EnumMemberValue(m) ==
    IF m.arg = PyNone \/ m.arg = PyStr(<<>>) THEN PyStr(<<m.name>>) ELSE m.arg

\* str(member), lines 280-281
EnumStr(etbl, v) ==
    LET e == etbl[Payload(v)[1]]
        k == CHOOSE i \in 1..Len(e.members) : e.members[i].name = Payload(v)[2]
    IN  EnumMemberValue(e.members[k])

\* EnumTemplate._to_dict, lines 284-292
EnumToDict(e) ==
    ("@type" :> "Enum") @@ ("@id" :> e.name) @@
    ("@value" :> [i \in 1..Len(e.members) |-> EnumMemberValue(e.members[i])])

----------------------------------------------------------------------------
(* Instances: the class and the instance's own attributes.                 *)

\* names whose first character is "_" (line 172)
Underscored == {"_id", "_annotations", "_new"}

\* typeguard.check_type(argname, value, expected_type), the external check
\* called at line 174: TRUE when it returns, FALSE when it raises TypeError
CheckType(tbl, heap, v, t) ==
    CASE t = "int" -> Tag(v) \in {"int", "bool"}
      [] t = "str" -> Tag(v) = "str"
      [] t = "list" -> Tag(v) = "list"
      [] t \in DOMAIN tbl -> Tag(v) = "obj" /\ t \in Range(tbl[heap[Payload(v)].cls].mro)
      [] OTHER -> Tag(v) = "enum" /\ Payload(v)[1] = t

\* mutant: the assignment is made without the type check
SetAttrAccepts_Unchecked(tbl, heap, c, name, v) == TRUE

\* DocumentTemplate.__setattr__, lines 171-178: whether the assignment is made
SetAttrAccepts(tbl, heap, c, name, v) ==
    IF name \notin Underscored /\ v # PyNone
    THEN name \in DOMAIN tbl[c]._annotations
         /\ CheckType(tbl, heap, v, tbl[c]._annotations[name])
    ELSE TRUE

\* the generated constructor, lines 140-149: the value each declared field gets
InitValues(c, kwargs) ==
    [key \in DOMAIN c._annotations |-> IF key \in DOMAIN kwargs THEN kwargs[key] ELSE PyNone]

\* str(self.__class__): TerminusClass.__repr__, lines 160-161
ClassStr(c) == c.name

\* whether a value is a document instance inlined by the first branch, lines 227-230
IsEmbedded(tbl, heap, v) ==
    /\ Tag(v) = "obj"
    /\ LET c == tbl[heap[Payload(v)].cls]
       IN  \/ HasAttr(tbl, c, "_subdocument")
           \/ (HasAttr(tbl, c, "_key") /\ ~KeyHasIdgen(GetAttr(tbl, c, "_key")))

\* hasattr(the_item, "_id"), line 232
HasId(heap, v) == Tag(v) = "obj" /\ "_id" \in DOMAIN heap[Payload(v)].attrs

\* mutant: a field holding None gets a key as well
EmittedFields_KeepNone(tbl, o) ==
    {f \in DOMAIN tbl[o.cls]._annotations : f \in DOMAIN o.attrs}

\* the declared fields that get a key: present and not None, lines 223-226
EmittedFields(tbl, o) ==
    {f \in DOMAIN tbl[o.cls]._annotations : f \in DOMAIN o.attrs /\ o.attrs[f] # PyNone}

RefDict(id) == <<"dict", ("@id" :> id) @@ ("@type" :> "@id")>>

RecursionError == <<"error", "RecursionError">>

\* DocumentTemplate._obj_to_dict, lines 219-247.  fuel bounds the depth of the
\* recursion: a cycle of embedded instances ends in Python's RecursionError.
RECURSIVE ObjToDict(_, _, _, _, _)
\* mutant: the identifier is looked at before the class, so an embedded
\* instance with an identifier becomes a reference
ItemToDict_ReferenceFirst(tbl, etbl, heap, v, fuel) ==
    IF HasId(heap, v) THEN RefDict(heap[Payload(v)].attrs["_id"])
    ELSE IF IsEmbedded(tbl, heap, v) THEN ObjToDict(tbl, etbl, heap, Payload(v), fuel)
    ELSE IF Tag(v) = "list"
         THEN <<"list", [j \in 1..Len(Payload(v)) |->
                            IF Tag(Payload(v)[j]) = "obj"
                            THEN ObjToDict(tbl, etbl, heap, Payload(Payload(v)[j]), fuel)
                            ELSE Payload(v)[j]]>>
    ELSE IF Tag(v) = "enum" THEN EnumStr(etbl, v)
    ELSE v

\* mutant: every document instance is inlined, identifier or not
ItemToDict_NoReference(tbl, etbl, heap, v, fuel) ==
    IF Tag(v) = "obj" THEN ObjToDict(tbl, etbl, heap, Payload(v), fuel)
    ELSE IF Tag(v) = "list"
         THEN <<"list", [j \in 1..Len(Payload(v)) |->
                            IF Tag(Payload(v)[j]) = "obj"
                            THEN ObjToDict(tbl, etbl, heap, Payload(Payload(v)[j]), fuel)
                            ELSE Payload(v)[j]]>>
    ELSE IF Tag(v) = "enum" THEN EnumStr(etbl, v)
    ELSE v

ItemToDict(tbl, etbl, heap, v, fuel) ==
    IF IsEmbedded(tbl, heap, v) THEN ObjToDict(tbl, etbl, heap, Payload(v), fuel)
    ELSE IF HasId(heap, v) THEN RefDict(heap[Payload(v)].attrs["_id"])
    ELSE IF Tag(v) = "list"
         THEN LET l == Payload(v)
                  new_item == [j \in 1..Len(l) |->
                                  IF Tag(l[j]) = "obj"
                                  THEN ObjToDict(tbl, etbl, heap, Payload(l[j]), fuel)
                                  ELSE l[j]]
              IN  IF \E j \in 1..Len(l) : new_item[j] = RecursionError
                  THEN RecursionError ELSE <<"list", new_item>>
    ELSE IF Tag(v) = "enum" THEN EnumStr(etbl, v)
    ELSE v

ObjToDict(tbl, etbl, heap, i, fuel) ==
    IF fuel = 0 THEN RecursionError
    ELSE LET o == heap[i]
             head == IF "_id" \in DOMAIN o.attrs
                     THEN ("@type" :> ClassStr(tbl[o.cls])) @@ ("@id" :> o.attrs["_id"])
                     ELSE ("@type" :> ClassStr(tbl[o.cls]))
             items == EmittedFields(tbl, o)
             body == [f \in items |-> ItemToDict(tbl, etbl, heap, o.attrs[f], fuel - 1)]
         IN  IF \E f \in items : body[f] = RecursionError
             THEN RecursionError
             ELSE <<"dict", DictUpdate(head, body)>>

IdNames == <<"id1", "id2", "id3", "id4">>

NextObj == Cardinality(DOMAIN objs) + 1

\* cls(**kwargs): the constructor installed at line 151
Construct(c, kwargs) ==
    /\ Cardinality(DOMAIN objs) < MaxObjs
    /\ Cardinality(DOMAIN objs) < Len(IdNames)
    /\ IF classes[c].abstract
       THEN /\ last' = [op |-> "construct", cls |-> c, ok |-> FALSE, exc |-> "TypeError",
                        why |-> "abstract"]
            /\ UNCHANGED objs
       ELSE IF \E key \in DOMAIN classes[c]._annotations :
                  ~SetAttrAccepts(classes, objs, c, key, InitValues(classes[c], kwargs)[key])
       THEN /\ last' = [op |-> "construct", cls |-> c, ok |-> FALSE, exc |-> "TypeError",
                        why |-> "type"]
            /\ UNCHANGED objs
       ELSE /\ objs' = objs @@ (NextObj :>
                          [cls |-> c, attrs |-> InitValues(classes[c], kwargs)])
            /\ last' = [op |-> "construct", cls |-> c, ok |-> TRUE, obj |-> NextObj]
    /\ UNCHANGED <<classes, enums, schemas>>

\* obj.<name> = v
SetAttr(i, name, v) ==
    /\ IF SetAttrAccepts(classes, objs, objs[i].cls, name, v)
       THEN /\ objs' = [objs EXCEPT ![i].attrs = DictUpdate(@, name :> v)]
            /\ last' = [op |-> "setattr", obj |-> i, name |-> name, value |-> v,
                        ok |-> TRUE]
       ELSE /\ last' = [op |-> "setattr", obj |-> i, name |-> name, value |-> v,
                        ok |-> FALSE, exc |-> "TypeError"]
            /\ UNCHANGED objs
    /\ UNCHANGED <<classes, enums, schemas>>

\* obj._obj_to_dict()
ToDocument(i) ==
    /\ last' = [op |-> "to_document", obj |-> i,
                ret |-> ObjToDict(classes, enums, objs, i, Cardinality(DOMAIN objs) + 1)]
    /\ UNCHANGED <<classes, enums, schemas, objs>>

----------------------------------------------------------------------------
(* LexicalKey.idgen, lines 64-86.  The argument is an instance PyObj(i) or *)
(* a plain dictionary <<"pydict", d>>.                                     *)

Raise(e) == [ok |-> FALSE, exc |-> e]
Return(v) == [ok |-> TRUE, ret |-> v]

DigitChars == <<"0", "1", "2", "3", "4", "5", "6", "7", "8", "9">>

\* str(n) for an int n >= 0
RECURSIVE IntStr(_)
IntStr(n) == IF n < 10 THEN <<DigitChars[n + 1]>>
             ELSE IntStr(n \div 10) \o <<DigitChars[(n % 10) + 1]>>

\* str(v) for the datatype values
Str(v) ==
    CASE Tag(v) = "str" -> Payload(v)
      [] Tag(v) = "int" -> IntStr(Payload(v))
      [] Tag(v) = "bool" -> IF Payload(v) THEN <<"True">> ELSE <<"False">>

\* urllib.parse.quote with its default safe="/": letters, digits and _.-~/
\* stay, every other character becomes %XX
PercentCode == (" " :> <<"%", "2", "0">>) @@ ("%" :> <<"%", "2", "5">>)
               @@ ("&" :> <<"%", "2", "6">>)

RECURSIVE Quote(_)
Quote(str) ==
    IF str = <<>> THEN <<>>
    ELSE (IF Head(str) \in DOMAIN PercentCode THEN PercentCode[Head(str)]
          ELSE <<Head(str)>>) \o Quote(Tail(str))

\* "_".join(key_list)
RECURSIVE Join(_)
Join(key_list) ==
    IF key_list = <<>> THEN <<>>
    ELSE IF Len(key_list) = 1 THEN key_list[1]
    ELSE key_list[1] \o <<"_">> \o Join(Tail(key_list))

\* ast.literal_eval(text): only the text of a literal evaluates; the text
\* "obj.<item>" parses to an attribute access, which raises ValueError
LiteralEval(text) ==
    IF Len(text) = 3 /\ text[2] = "." THEN Raise("ValueError") ELSE Return(text)

\* the attributes every dict has
DictAttrs == {"keys", "values", "items", "get", "pop", "copy", "update", "clear"}

\* hasattr(obj, item), lines 67
ObjHasAttr(tbl, heap, obj, item) ==
    IF Tag(obj) = "obj"
    THEN item \in DOMAIN heap[Payload(obj)].attrs
         \/ HasAttr(tbl, tbl[heap[Payload(obj)].cls], item)
    ELSE item \in DictAttrs

\* lines 67-72: the value of one key field
KeyItem(tbl, heap, obj, item) ==
    IF ObjHasAttr(tbl, heap, obj, item) THEN LiteralEval(<<"obj", ".", item>>)
    ELSE IF Tag(obj) = "pydict" /\ DictGet(Payload(obj), item) # PyNone
         THEN Return(Payload(obj)[item])
    ELSE Raise("ValueError")

\* isinstance(key_item, tuple(CONVERT_TYPE.keys())), line 74
IsDatatype(v) == Tag(v) \in {"str", "int", "bool"}

\* lines 65-77: the key list, or the first error
RECURSIVE KeyList(_, _, _, _)
KeyList(tbl, heap, obj, keys) ==
    IF keys = <<>> THEN Return(<<>>)
    ELSE LET item == KeyItem(tbl, heap, obj, Head(keys))
         IN  IF ~item.ok THEN item
             ELSE IF ~IsDatatype(item.ret) THEN Raise("ValueError")
             ELSE LET rest == KeyList(tbl, heap, obj, Tail(keys))
                  IN  IF ~rest.ok THEN rest
                      ELSE Return(<<Str(item.ret)>> \o rest.ret)

\* lines 78-85
Prefix(tbl, heap, obj) ==
    IF Tag(obj) = "pydict" /\ DictGet(Payload(obj), "@type") # PyNone
    THEN Payload(Payload(obj)["@type"]) \o <<"_">>
    ELSE IF Tag(obj) = "obj" /\ HasAttr(tbl, tbl[heap[Payload(obj)].cls], "_base")
    THEN Payload(GetAttr(tbl, tbl[heap[Payload(obj)].cls], "_base")) \o <<"_">>
    ELSE IF Tag(obj) = "obj" THEN <<heap[Payload(obj)].cls, "_">>
    ELSE <<"dict", "_">>

LexicalIdgen(tbl, heap, keys, obj) ==
    LET key_list == KeyList(tbl, heap, obj, keys)
    IN  IF ~key_list.ok THEN key_list
        ELSE Return(PyStr(Prefix(tbl, heap, obj) \o Quote(Join(key_list.ret))))

\* cls._key.idgen(obj) for a class keyed by LexicalKey
Idgen(c, obj) ==
    /\ HasAttr(classes, classes[c], "_key")
    /\ KeyKind(GetAttr(classes, classes[c], "_key")) = "Lexical"
    /\ last' = [op |-> "idgen", cls |-> c, arg |-> obj,
                out |-> LexicalIdgen(classes, objs,
                                     KeyFields(GetAttr(classes, classes[c], "_key")), obj)]
    /\ UNCHANGED <<classes, enums, schemas, objs>>

----------------------------------------------------------------------------
(* State: the declared classes and enums, the schema containers' object    *)
(* sets, the live instances, and the last operation with its outcome.      *)

ClassNames == <<"Person", "Employee", "Manager", "Intern">>

UserClasses(tbl) == (DOMAIN tbl) \ {"DocumentTemplate", "TaggedUnion"}

NextName(tbl) == ClassNames[Cardinality(UserClasses(tbl)) + 1]

Init ==
    /\ classes = BuiltinClasses
    /\ enums = [e \in {} |-> <<>>]
    /\ schemas = [s \in {} |-> {}]
    /\ objs = [i \in {} |-> 0]
    /\ last = [op |-> "init"]

\* sequences of 1..MaxBases distinct declared classes
RECURSIVE SeqsUpTo(_, _)
SeqsUpTo(S, n) ==
    IF n = 0 THEN {<<>>}
    ELSE LET shorter == SeqsUpTo(S, n - 1)
         IN  shorter \cup {Append(s, x) : s \in shorter, x \in S}

BasesChoices(tbl) ==
    {b \in SeqsUpTo(DOMAIN tbl, MaxBases) :
        /\ Len(b) >= 1
        /\ \A i, j \in 1..Len(b) : i # j => b[i] # b[j]}

\* class <name>(<bases>): <nmspc>  -- type.__new__ then TerminusClass.__init__
DeclareClass(name, bases, nmspc) ==
    /\ Cardinality(UserClasses(classes)) < MaxClasses
    /\ Cardinality(UserClasses(classes)) < Len(ClassNames)
    /\ name = NextName(classes)
    /\ Mro(classes, name, bases) # MroFail
    /\ LET c == NewClass(classes, name, bases, nmspc)
       IN  /\ classes' = classes @@ (name :> c)
           /\ schemas' = Registered(classes, c, schemas)
    /\ last' = [op |-> "declare", cls |-> name]
    /\ UNCHANGED <<enums, objs>>

\* cls._to_dict()
Describe(c) ==
    /\ last' = [op |-> "describe", cls |-> c, ret |-> ClassToDict(classes, classes[c])]
    /\ UNCHANGED <<classes, enums, schemas, objs>>

----------------------------------------------------------------------------
(* Specification Spec: class declarations with annotated fields, and the   *)
(* schema description of the declared classes.                             *)

Fields == {"name", "age"}
Types == {"int", "str"}

PartialFns(D, R) == UNION {[S -> R] : S \in SUBSET D}

AnnBodies == {[ann |-> a, attrs |-> EmptyDict] : a \in PartialFns(Fields, Types)}

DeclareAnnotated ==
    \E bases \in BasesChoices(classes), nmspc \in AnnBodies :
        DeclareClass(NextName(classes), bases, nmspc)

DescribeClass == \E c \in DOMAIN classes : Describe(c)

Next == DeclareAnnotated \/ DescribeClass

Spec == Init /\ [][Next]_vars

\* every field name declared by the class or by a class of its __mro__
DeclaredFields(c) == UNION {DOMAIN classes[k].own : k \in Range(c.mro)}

\* the entries of a description that are fields, not "@..." keys
FieldKeys(d) == (DOMAIN d) \ {"@type", "@id", "@inherits", "@base", "@subdocument",
                              "@abstract", "@key", "@documentation"}

(* C1: for every declared class the merged field mapping, and the         *)
(* description rendered from it, has exactly one entry per field name      *)
(* declared by the class or an ancestor, and a field the class declares    *)
(* itself keeps the type the class declares (the most-derived class wins). *)
C1_DescendantWins ==
    /\ \A n \in DOMAIN classes :
          /\ DOMAIN classes[n]._annotations = DeclaredFields(classes[n])
          /\ \A f \in DOMAIN classes[n].own :
                classes[n]._annotations[f] = classes[n].own[f]
    /\ last.op = "describe" =>
          /\ FieldKeys(last.ret) = DeclaredFields(classes[last.cls])
          /\ \A f \in DOMAIN classes[last.cls].own :
                last.ret[f] = ToWoqlType(classes[last.cls].own[f])

(* C8: the description of a class has @type "TaggedUnion" if the class's   *)
(* nearest ancestor is the tagged-union base, and "Class" otherwise.       *)
C8_TaggedUnionType ==
    last.op = "describe" =>
        last.ret["@type"] = IF BaseName(classes[last.cls]) = "TaggedUnion"
                            THEN "TaggedUnion" ELSE "Class"

----------------------------------------------------------------------------
(* Specification SpecInst: instances of an ordinary class, a sub-document  *)
(* class and a class keyed by ValueHash; assignments and serialization.    *)

Color == [name |-> "Color", attrs |-> EmptyDict,
          members |-> <<[name |-> "red", arg |-> PyNone],
                        [name |-> "blue", arg |-> PyStr(<<"Blue">>)]>>]

Body(ann, attrs) == [ann |-> ann, attrs |-> attrs]

InstClasses ==
    LET t1 == BuiltinClasses @@ ("Doc" :>
                 NewClass(BuiltinClasses, "Doc", <<"DocumentTemplate">>,
                          Body("link" :> "DocumentTemplate", EmptyDict)))
        t2 == t1 @@ ("Bag" :>
                 NewClass(t1, "Bag", <<"DocumentTemplate">>,
                          Body("items" :> "list", EmptyDict)))
        t3 == t2 @@ ("Sub" :>
                 NewClass(t2, "Sub", <<"DocumentTemplate">>,
                          Body(("color" :> "Color") @@ ("link" :> "DocumentTemplate"),
                               "_subdocument" :> PyList(<<>>))))
    IN  t3 @@ ("VH" :>
                 NewClass(t3, "VH", <<"DocumentTemplate">>,
                          Body(EmptyDict, "_key" :> PyKey("ValueHash", <<>>))))

InitInst ==
    /\ classes = InstClasses
    /\ enums = ("Color" :> Color)
    /\ schemas = [s \in {} |-> {}]
    /\ objs = [i \in {} |-> 0]
    /\ last = [op |-> "init"]

\* the instances created before instance i: the ones a value given to i refers to
Earlier(heap, i) == {PyObj(j) : j \in {k \in DOMAIN heap : k < i}}

Scalars == {PyNone, PyInt(1), PyStr(<<"A">>), PyEnum("Color", "red")}

Values(heap, i) ==
    Scalars \cup Earlier(heap, i)
    \cup {PyList(<<PyInt(1)>>)}
    \cup {PyList(l) : l \in SeqsUpTo(Earlier(heap, i), MaxListLen)}

\* the values a field of type t accepts: None and the values of that type
Typed(heap, i, t) ==
    {v \in Values(heap, i) : v = PyNone \/ CheckType(classes, heap, v, t)}

Kwargs(c, heap) ==
    {EmptyDict} \cup
    UNION {{f :> v : v \in Typed(heap, Cardinality(DOMAIN heap) + 1,
                                  classes[c]._annotations[f])} :
           f \in DOMAIN classes[c]._annotations}

NewInstance ==
    \E c \in {"Doc", "Bag", "Sub", "VH"} : \E kwargs \in Kwargs(c, objs) :
        Construct(c, kwargs)

AssignField ==
    \E i \in DOMAIN objs : \E name \in DOMAIN classes[objs[i].cls]._annotations :
        \E v \in Typed(objs, i, classes[objs[i].cls]._annotations[name]) :
            SetAttr(i, name, v)

\* the persistence layer gives the instance its identifier
AssignId == \E i \in DOMAIN objs : SetAttr(i, "_id", PyStr(<<IdNames[i]>>))

Serialize == \E i \in DOMAIN objs : ToDocument(i)

NextInst == NewInstance \/ AssignField \/ AssignId \/ Serialize

SpecInst == InitInst /\ [][NextInst]_vars

(* Specification SpecAssign: the same classes; construction, and the       *)
(* assignment of values of every kind to every declared field.             *)

AssignValues(heap, i) == Scalars \cup Earlier(heap, i) \cup {PyList(<<>>)}

NewEmpty == \E c \in {"Doc", "Bag", "Sub", "VH"} : Construct(c, EmptyDict)

AssignValue ==
    \E i \in DOMAIN objs : \E name \in DOMAIN classes[objs[i].cls]._annotations :
        \E v \in AssignValues(objs, i) : SetAttr(i, name, v)

NextAssign == NewEmpty \/ AssignValue

SpecAssign == InitInst /\ [][NextAssign]_vars

\* the state a to_document() call has just returned a dictionary in
Serialized == last.op = "to_document" /\ last.ret[1] = "dict"

FullFuel == Cardinality(DOMAIN objs) + 1

IsSubdocument(v) ==
    Tag(v) = "obj" /\ HasAttr(classes, classes[objs[Payload(v)].cls], "_subdocument")

\* a document instance with an identifier whose class is neither a
\* sub-document nor without a generative key strategy
IsLinked(v) ==
    /\ Tag(v) = "obj"
    /\ "_id" \in DOMAIN objs[Payload(v)].attrs
    /\ ~HasAttr(classes, classes[objs[Payload(v)].cls], "_subdocument")
    /\ GetAttr(classes, classes[objs[Payload(v)].cls], "_key")[2][1] # "ValueHash"

Reference(v) == <<"dict", ("@id" :> objs[Payload(v)].attrs["_id"]) @@ ("@type" :> "@id")>>

(* C3: the dictionary to_document() returns has no key for a declared      *)
(* field whose value is None and a key for every declared field whose      *)
(* value is not None.                                                      *)
C3_NoneOmitted ==
    Serialized =>
        \A f \in DOMAIN classes[objs[last.obj].cls]._annotations :
            (f \in DOMAIN last.ret[2]) <=> (objs[last.obj].attrs[f] # PyNone)

C3_Witness ==
    /\ Serialized
    /\ \E f \in DOMAIN objs[last.obj].attrs : f # "_id" /\ objs[last.obj].attrs[f] = PyNone
    /\ \E f \in DOMAIN objs[last.obj].attrs : f # "_id" /\ objs[last.obj].attrs[f] # PyNone

(* C4 as stated: in the output of to_document() every value that is a      *)
(* linked document instance, a field's value or an element of a field's    *)
(* list, is emitted as the reference {"@id": id, "@type": "@id"}.          *)
C4_EveryLinkedValueIsReference ==
    Serialized =>
        \A f \in DOMAIN classes[objs[last.obj].cls]._annotations :
            LET v == objs[last.obj].attrs[f]
            IN  /\ IsLinked(v) => last.ret[2][f] = Reference(v)
                /\ Tag(v) = "list" =>
                      \A j \in 1..Len(Payload(v)) :
                          IsLinked(Payload(v)[j]) =>
                              last.ret[2][f][2][j] = Reference(Payload(v)[j])

(* C4 amended: a declared field whose own value is a linked document       *)
(* instance is emitted as the reference and not inlined; a document        *)
(* instance that is an element of a field's list is inlined as its own     *)
(* to_document() output, with or without an identifier.                    *)
C4_FieldValueIsReference ==
    Serialized =>
        \A f \in DOMAIN classes[objs[last.obj].cls]._annotations :
            LET v == objs[last.obj].attrs[f]
            IN  /\ IsLinked(v) =>
                      /\ last.ret[2][f] = Reference(v)
                      /\ DOMAIN last.ret[2][f][2] = {"@id", "@type"}
                /\ Tag(v) = "list" =>
                      \A j \in 1..Len(Payload(v)) :
                          Tag(Payload(v)[j]) = "obj" =>
                              /\ last.ret[2][f][2][j][2]["@type"]
                                    = objs[Payload(Payload(v)[j])].cls
                              /\ last.ret[2][f][2][j]
                                    = ObjToDict(classes, enums, objs,
                                                Payload(Payload(v)[j]), FullFuel)

C4_Witness ==
    /\ Serialized
    /\ \E f \in DOMAIN classes[objs[last.obj].cls]._annotations :
          /\ IsLinked(objs[last.obj].attrs[f])
          /\ \E g \in DOMAIN objs[Payload(objs[last.obj].attrs[f])].attrs :
                g # "_id" /\ objs[Payload(objs[last.obj].attrs[f])].attrs[g] # PyNone

(* C5: a field holding an instance of a sub-document class is inlined as   *)
(* that instance's own to_document() result and is not an @id reference,   *)
(* whether or not the embedded instance has an identifier.                 *)
C5_SubdocumentInlined ==
    Serialized =>
        \A f \in DOMAIN classes[objs[last.obj].cls]._annotations :
            LET v == objs[last.obj].attrs[f]
            IN  IsSubdocument(v) =>
                    /\ last.ret[2][f][1] = "dict"
                    /\ last.ret[2][f][2]["@type"] = objs[Payload(v)].cls
                    /\ last.ret[2][f] = ObjToDict(classes, enums, objs, Payload(v), FullFuel)

C5_Witness ==
    /\ Serialized
    /\ \E f \in DOMAIN classes[objs[last.obj].cls]._annotations :
          /\ IsSubdocument(objs[last.obj].attrs[f])
          /\ "_id" \in DOMAIN objs[Payload(objs[last.obj].attrs[f])].attrs

\* a value that is not of the declared type
Mismatch(v, t) ==
    \/ t = "int" /\ Tag(v) \in {"str", "list", "obj", "enum"}
    \/ t = "str" /\ Tag(v) \in {"int", "list", "obj", "enum"}
    \/ t = "list" /\ Tag(v) \in {"int", "str", "obj", "enum"}
    \/ t = "Color" /\ Tag(v) \in {"int", "str", "list", "obj"}
    \/ t = "DocumentTemplate" /\ Tag(v) \in {"int", "str", "list", "enum"}

(* C7: assigning to a declared field a value that is not None and not of   *)
(* the declared type raises TypeError at the assignment and leaves the     *)
(* field as it was; assigning None is accepted.                            *)
C7_MismatchRaises ==
    [][(last'.op = "setattr" /\ last'.name \notin Underscored) =>
          LET i == last'.obj
              f == last'.name
              v == last'.value
          IN  /\ Mismatch(v, classes[objs[i].cls]._annotations[f]) =>
                    /\ ~last'.ok
                    /\ last'.exc = "TypeError"
                    /\ objs'[i].attrs[f] = objs[i].attrs[f]
              /\ v = PyNone => last'.ok /\ objs'[i].attrs[f] = PyNone]_vars

\* a refused assignment to a field that held a value
C7_Witness ==
    /\ last.op = "setattr"
    /\ ~last.ok
    /\ objs[last.obj].attrs[last.name] # PyNone

----------------------------------------------------------------------------
(* Specification SpecAbstract: classes with every kind of _abstract        *)
(* attribute, own and inherited, and their construction.                   *)

AbstractClasses ==
    LET legs == "legs" :> "int"
        t1 == BuiltinClasses @@ ("Animal" :>
                 NewClass(BuiltinClasses, "Animal", <<"DocumentTemplate">>,
                          Body(legs, "_abstract" :> PyList(<<>>))))
        t2 == t1 @@ ("Dog" :>
                 NewClass(t1, "Dog", <<"Animal">>, Body("name" :> "str", EmptyDict)))
        t3 == t2 @@ ("Cat" :>
                 NewClass(t2, "Cat", <<"Animal">>,
                          Body("name" :> "str", "_abstract" :> PyBool(FALSE))))
        t4 == t3 @@ ("Plant" :>
                 NewClass(t3, "Plant", <<"DocumentTemplate">>,
                          Body(legs, "_abstract" :> PyBool(TRUE))))
        t5 == t4 @@ ("Rock" :>
                 NewClass(t4, "Rock", <<"DocumentTemplate">>,
                          Body(legs, "_abstract" :> PyStr(<<"y", "e", "s">>))))
    IN  t5 @@ ("Person" :>
                 NewClass(t5, "Person", <<"DocumentTemplate">>, Body(legs, EmptyDict)))

InitAbstract ==
    /\ classes = AbstractClasses
    /\ enums = [e \in {} |-> <<>>]
    /\ schemas = [s \in {} |-> {}]
    /\ objs = [i \in {} |-> 0]
    /\ last = [op |-> "init"]

AbstractKwargs ==
    PartialFns({"legs", "name"}, {PyNone, PyInt(1), PyStr(<<"A">>)})

ConstructAny == \E c \in DOMAIN classes : \E kwargs \in AbstractKwargs : Construct(c, kwargs)

AssignAny ==
    \E i \in DOMAIN objs : \E name \in DOMAIN classes[objs[i].cls]._annotations :
        \E v \in {PyNone, PyInt(1), PyStr(<<"A">>)} : SetAttr(i, name, v)

NextAbstract == ConstructAny \/ AssignAny

SpecAbstract == InitAbstract /\ [][NextAbstract]_vars

\* the _abstract attribute a class has, its own or an inherited one
AbstractAttr(c) ==
    IF HasAttr(classes, classes[c], "_abstract")
    THEN GetAttr(classes, classes[c], "_abstract") ELSE PyNone

HasAbstractAttr(c) == HasAttr(classes, classes[c], "_abstract")

\* the keyword values the constructor assigns are None or of the declared type
WellTyped(c, kwargs) ==
    \A f \in (DOMAIN kwargs) \cap (DOMAIN classes[c]._annotations) :
        ~Mismatch(kwargs[f], classes[c]._annotations[f])

\* construction succeeded with every declared field from its keyword or None
Built(c, kwargs) ==
    /\ last'.ok
    /\ objs'[last'.obj].cls = c
    /\ DOMAIN objs'[last'.obj].attrs = DOMAIN classes[c]._annotations
    /\ \A f \in DOMAIN classes[c]._annotations :
          objs'[last'.obj].attrs[f] = IF f \in DOMAIN kwargs THEN kwargs[f] ELSE PyNone

Refused == ~last'.ok /\ last'.exc = "TypeError" /\ objs' = objs

(* C6 as stated: construction fails with TypeError if the abstract flag is *)
(* true and otherwise succeeds with every declared field set from its      *)
(* keyword argument or None, the flag being true exactly when _abstract is *)
(* True or a non-boolean truthy value.  Taken for keyword values that are  *)
(* None or of the declared type.                                           *)
C6_AbstractWhenTruthy ==
    [][\A c \in DOMAIN classes : \A kwargs \in AbstractKwargs :
          (Construct(c, kwargs) /\ WellTyped(c, kwargs)) =>
              IF HasAbstractAttr(c) /\ Truthy(AbstractAttr(c))
              THEN Refused ELSE Built(c, kwargs)]_vars

(* C6 amended: construction fails with TypeError if the abstract flag is   *)
(* true; otherwise it succeeds with every declared field set from its      *)
(* keyword argument or None when each keyword value given for a declared   *)
(* field is None or of the declared type, and fails with TypeError when    *)
(* one is not.  The flag is true exactly when the _abstract attribute the  *)
(* class has, its own or an inherited one, is True or is not a boolean at  *)
(* all, truthy or not.                                                     *)
C6_AbstractWhenNotFalse ==
    [][\A c \in DOMAIN classes : \A kwargs \in AbstractKwargs :
          Construct(c, kwargs) =>
              IF HasAbstractAttr(c)
                 /\ (AbstractAttr(c) = PyBool(TRUE) \/ Tag(AbstractAttr(c)) # "bool")
              THEN Refused /\ last'.why = "abstract"
              ELSE IF WellTyped(c, kwargs) THEN Built(c, kwargs)
              ELSE Refused /\ last'.why = "type"]_vars

\* a class whose _abstract is the empty list has refused construction, and
\* an instance of a class with _abstract = False under it has been built
C6_Witness ==
    /\ last.op = "construct"
    /\ ~last.ok
    /\ last.why = "abstract"
    /\ HasAbstractAttr(last.cls)
    /\ ~Truthy(AbstractAttr(last.cls))
    /\ \E i \in DOMAIN objs : AbstractAttr(objs[i].cls) = PyBool(FALSE)

----------------------------------------------------------------------------
(* Specification SpecKey: classes keyed by LexicalKey, one with a _base    *)
(* namespace; identifiers of their instances and of plain dictionaries.    *)

KeyedClasses ==
    LET t1 == BuiltinClasses @@ ("Person" :>
                 NewClass(BuiltinClasses, "Person", <<"DocumentTemplate">>,
                          Body(("name" :> "str") @@ ("age" :> "int"),
                               "_key" :> PyKey("Lexical", <<"name", "age">>))))
    IN  t1 @@ ("City" :>
                 NewClass(t1, "City", <<"DocumentTemplate">>,
                          Body("name" :> "str",
                               ("_key" :> PyKey("Lexical", <<"name">>))
                               @@ ("_base" :> PyStr(<<"Place">>)))))

InitKey ==
    /\ classes = KeyedClasses
    /\ enums = [e \in {} |-> <<>>]
    /\ schemas = [s \in {} |-> {}]
    /\ objs = [i \in {} |-> 0]
    /\ last = [op |-> "init"]

Alphabet == {"A", " "}

Strings == {PyStr(str) : str \in SeqsUpTo(Alphabet, MaxStrLen)}

KeyKwargs == {kw \in PartialFns({"name", "age"}, Strings \cup {PyInt(30)}) :
                 /\ "name" \in DOMAIN kw => Tag(kw["name"]) = "str"
                 /\ "age" \in DOMAIN kw => Tag(kw["age"]) = "int"}

KeyDicts == {<<"pydict", d>> :
                d \in {kw \in PartialFns({"@type", "name", "age"},
                                         {PyStr(<<"Person">>), PyStr(<<"A", " ">>),
                                          PyList(<<>>), PyInt(30)}) :
                          /\ "@type" \in DOMAIN kw => kw["@type"] = PyStr(<<"Person">>)
                          /\ "name" \in DOMAIN kw => Tag(kw["name"]) \in {"str", "list"}
                          /\ "age" \in DOMAIN kw => Tag(kw["age"]) = "int"}}

NewKeyed == \E c \in {"Person", "City"} : \E kwargs \in KeyKwargs : Construct(c, kwargs)

IdgenInstance == \E i \in DOMAIN objs : Idgen(objs[i].cls, PyObj(i))

IdgenDict == \E c \in {"Person", "City"} : \E d \in KeyDicts : Idgen(c, d)

NextKey == NewKeyed \/ IdgenInstance \/ IdgenDict

SpecKey == InitKey /\ [][NextKey]_vars

\* the namespace of an instance: the class's _base if it has one, else its name
Namespace(i) ==
    IF HasAttr(classes, classes[objs[i].cls], "_base")
    THEN Payload(GetAttr(classes, classes[objs[i].cls], "_base"))
    ELSE <<objs[i].cls>>

\* str(d.a) + "_" + str(d.b) over the key fields of the class of instance i
RECURSIVE KeyText(_, _)
KeyText(i, keys) ==
    IF Len(keys) = 1 THEN Str(objs[i].attrs[keys[1]])
    ELSE Str(objs[i].attrs[keys[1]]) \o <<"_">> \o KeyText(i, Tail(keys))

(* C2: for an instance of a class with a Lexical key whose key fields all  *)
(* have values, idgen returns <namespace>_ followed by the percent-encoded *)
(* "_"-joined string forms of the key fields, the namespace being the      *)
(* class's base override if set and the class name otherwise.              *)
C2_LexicalIdentifier ==
    (/\ last.op = "idgen"
     /\ Tag(last.arg) = "obj"
     /\ \A k \in Range(KeyFields(GetAttr(classes, classes[last.cls], "_key"))) :
           objs[Payload(last.arg)].attrs[k] # PyNone)
    => /\ last.out.ok
       /\ last.out.ret =
             PyStr(Namespace(Payload(last.arg)) \o <<"_">>
                   \o Quote(KeyText(Payload(last.arg),
                                    KeyFields(GetAttr(classes, classes[last.cls], "_key")))))

----------------------------------------------------------------------------
(* Specification SpecSchema: schema containers (WOQLSchema, lines 299-345),*)
(* classes and enums declared with and without a container, explicit       *)
(* add_obj calls, copies and descriptions.  A container is its object set; *)
(* the members of the set are the class objects themselves, named here by  *)
(* class name.                                                             *)

EnumNames == <<"Size", "Shade", "Shape">>

InitSchema ==
    /\ classes = BuiltinClasses
    /\ enums = [e \in {} |-> <<>>]
    /\ schemas = [s \in {} |-> {}]
    /\ objs = [i \in {} |-> 0]
    /\ last = [op |-> "init"]

NextSchema == Cardinality(DOMAIN schemas) + 1

\* WOQLSchema(), lines 300-301
NewSchema ==
    /\ Cardinality(DOMAIN schemas) < MaxSchemas
    /\ schemas' = schemas @@ (NextSchema :> {})
    /\ last' = [op |-> "new_schema", ret |-> NextSchema]
    /\ UNCHANGED <<classes, enums, objs>>

\* the classes and enums declared so far
Members == UserClasses(classes) \cup DOMAIN enums

\* the _schema attribute a class body may carry: none, or a container
SchemaAttrs == {EmptyDict} \cup {"_schema" :> PySchema(x) : x \in DOMAIN schemas}

DeclareInSchema ==
    /\ Cardinality(Members) < MaxMembers
    /\ \E attrs \in SchemaAttrs :
          DeclareClass(NextName(classes), <<"DocumentTemplate">>,
                       Body("name" :> "str", attrs))

\* class <name>(EnumTemplate): EnumMetaTemplate.__new__, lines 251-270.
\* removes: whether classdict._member_names has remove(), which the enum
\* module of the running interpreter decides (a list has, a dict has not);
\* without it line 263 raises AttributeError, as line 267 does for None.
DeclareEnum(name, members, attrs, removes) ==
    /\ Cardinality(Members) < MaxMembers
    /\ Cardinality(DOMAIN enums) < Len(EnumNames)
    /\ name = EnumNames[Cardinality(DOMAIN enums) + 1]
    /\ IF "_schema" \in DOMAIN attrs
       THEN IF removes /\ attrs["_schema"] # PyNone
            THEN /\ enums' = enums @@
                        (name :> [name |-> name, members |-> members, attrs |-> attrs])
                 /\ schemas' = [schemas EXCEPT ![Payload(attrs["_schema"])] = @ \cup {name}]
                 /\ last' = [op |-> "declare_enum", ok |-> TRUE]
            ELSE /\ last' = [op |-> "declare_enum", ok |-> FALSE, exc |-> "AttributeError"]
                 /\ UNCHANGED <<enums, schemas>>
       ELSE /\ enums' = enums @@
                   (name :> [name |-> name, members |-> members, attrs |-> EmptyDict])
            /\ last' = [op |-> "declare_enum", ok |-> TRUE]
            /\ UNCHANGED schemas
    /\ UNCHANGED <<classes, objs>>

DeclareEnumInSchema ==
    \E attrs \in SchemaAttrs \cup {"_schema" :> PyNone} : \E removes \in BOOLEAN :
        DeclareEnum(EnumNames[Cardinality(DOMAIN enums) + 1],
                    <<[name |-> "small", arg |-> PyNone]>>, attrs, removes)

\* schema.add_obj(obj), lines 335-336
AddObj(x, obj) ==
    /\ schemas' = [schemas EXCEPT ![x] = @ \cup {obj}]
    /\ last' = [op |-> "add_obj", schema |-> x]
    /\ UNCHANGED <<classes, enums, objs>>

AddAny ==
    \E x \in DOMAIN schemas : \E obj \in Members : AddObj(x, obj)

\* copy.deepcopy of a class: the copy module returns a class object itself
DeepCopyClass(obj) == obj

\* copy.deepcopy of a set: a new set of the copies of the elements
DeepCopySet(S) == {DeepCopyClass(obj) : obj \in S}

\* schema.copy(), lines 344-345: a new container whose object set is the
\* deep copy of this one's
CopySchema(x) ==
    /\ Cardinality(DOMAIN schemas) < MaxSchemas
    /\ schemas' = schemas @@ (NextSchema :> DeepCopySet(schemas[x]))
    /\ last' = [op |-> "copy", src |-> x, ret |-> NextSchema]
    /\ UNCHANGED <<classes, enums, objs>>

CopyAny == \E x \in DOMAIN schemas : CopySchema(x)

\* for cls in schema.all_obj(): cls._annotations[f] = t -- the caller changes
\* the merged field mapping of a class it reached through container x
\* (all_obj, lines 338-339, returns the object set itself)
SetClassAnnotation(x, c, f, t) ==
    /\ c \in schemas[x] \cap DOMAIN classes
    /\ classes' = [classes EXCEPT ![c]._annotations = DictUpdate(@, f :> t)]
    /\ last' = [op |-> "annotate", schema |-> x]
    /\ UNCHANGED <<enums, schemas, objs>>

AnnotateAny ==
    \E x \in DOMAIN schemas : \E c \in schemas[x] : SetClassAnnotation(x, c, "age", "int")

\* schema.to_dict(), lines 341-342: the descriptions of the members; the
\* list follows the set's iteration order, so it is kept as a set here
SchemaToDict(tbl, etbl, reg, x) ==
    {IF obj \in DOMAIN tbl THEN <<"dict", ClassToDict(tbl, tbl[obj])>>
     ELSE <<"dict", EnumToDict(etbl[obj])>> : obj \in reg[x]}

ToDict(x) ==
    /\ last' = [op |-> "to_dict", ret |-> SchemaToDict(classes, enums, schemas, x)]
    /\ UNCHANGED <<classes, enums, schemas, objs>>

ToDictAny == \E x \in DOMAIN schemas : ToDict(x)

NextSch ==
    \/ NewSchema
    \/ DeclareInSchema
    \/ DeclareEnumInSchema
    \/ AddAny
    \/ CopyAny
    \/ ToDictAny

SpecSchema == InitSchema /\ [][NextSch]_vars

(* Specification SpecCopy: the same, and the caller changing the merged    *)
(* field mapping of a class it reached through a container.                *)

NextCopy == NextSch \/ AnnotateAny

SpecCopy == InitSchema /\ [][NextCopy]_vars

\* the classes and enums whose own declaration names container x
DeclaredIn(x) ==
    {c \in UserClasses(classes) : DictGet(classes[c].attrs, "_schema") = PySchema(x)}
    \cup {e \in DOMAIN enums : DictGet(enums[e].attrs, "_schema") = PySchema(x)}

(* C9: a container made by WOQLSchema() starts with an empty object set;   *)
(* in every reachable state the object set of a container holds every     *)
(* class and enum declared with that container as its _schema; no step     *)
(* takes a member out of an object set; add_obj of a member already        *)
(* present leaves every object set as it was.                              *)
C9_RegistryKeepsMembers ==
    /\ [](\A x \in DOMAIN schemas : DeclaredIn(x) \subseteq schemas[x])
    /\ [][/\ last'.op = "new_schema" => schemas'[last'.ret] = {}
          /\ \A x \in DOMAIN schemas : schemas[x] \subseteq schemas'[x]
          /\ \A x \in DOMAIN schemas : \A obj \in schemas[x] :
                AddObj(x, obj) => schemas' = schemas]_vars

\* an add_obj into a container that holds a class registered by its
\* declaration and a member that was added explicitly
C9_Witness ==
    /\ last.op = "add_obj"
    /\ DeclaredIn(last.schema) \cap DOMAIN classes # {}
    /\ schemas[last.schema] \ DeclaredIn(last.schema) # {}

\* what container x shows: its members and their descriptions
Observed(tbl, etbl, reg, x) == <<reg[x], SchemaToDict(tbl, etbl, reg, x)>>

(* C10: after y = x.copy(), a change made through one of the two           *)
(* containers (add_obj into it, or a change of the merged field mapping of *)
(* one of its registered classes) leaves what the other container shows    *)
(* (its members and their descriptions) as it was.  Stated for the first   *)
(* change that follows the copy.                                           *)
C10_CopyIsIndependent ==
    [][(last.op = "copy" /\ last'.op \in {"add_obj", "annotate"}) =>
          /\ last'.schema = last.src =>
                Observed(classes', enums', schemas', last.ret)
                    = Observed(classes, enums, schemas, last.ret)
          /\ last'.schema = last.ret =>
                Observed(classes', enums', schemas', last.src)
                    = Observed(classes, enums, schemas, last.src)]_vars

====
